---- MODULE Spec2Model ----
(***************************************************************************)
(* Model of MainSequence.generate in examples/riscv/basic_fpu_force.py.    *)
(*                                                                         *)
(* generate() reads the 'instruction_count' option and the                 *)
(* 'AppRegisterWidth' fact, selects RV32F_instructions or                  *)
(* RV64F_instructions, and then runs `for _ in range(instruction_count)`,  *)
(* each iteration calling pickWeighted and then genInstruction.            *)
(*                                                                         *)
(* The program counter pc names the source line about to execute.  The     *)
(* environment (option table, global state, instruction tree, picker and   *)
(* backend) lives outside the file: the option, the width and the two      *)
(* groups are inputs drawn in Init, the picker returns any entry of        *)
(* positive weight, and the backend either returns a record id or raises.  *)
(* The in-progress test program is kept as the multiset of the instruction *)
(* instances generated so far; generate() never reads it.                  *)
(***************************************************************************)
EXTENDS Integers, FiniteSets, TLC

\* ---------------------------------------------------------------- bounds
MaxCount == 2

\* ------------------------------------------------------------- constants
DefaultCount == 100

\* ---------------------------------------------------------------- values
\* A Python value held by count_opt / instruction_count: an int, a str
\* (the malformed option "abc"), or not yet bound.  record_id is 0 until
\* genInstruction has returned one.
IntV(n) == [kind |-> "int", n |-> n]
StrV == [kind |-> "str", n |-> 0]
Unbound == [kind |-> "unbound", n |-> 0]

CountValues == {IntV(n) : n \in -1..MaxCount} \cup {StrV}
AbsentValues == {IntV(MaxCount), StrV}
Options == (CountValues \X {TRUE}) \cup (AbsentValues \X {FALSE})
Widths == {16, 32, 64, 128}
RecordIds == {1, 2}
NoInstruction == "none"

Ids == {"FADD.S##RISCV", "FMUL.S##RISCV", "FCVT.L.S##RISCV", "FCVT.S.L##RISCV"}
EmptyGroup == [x \in {} |-> 0]
\* Candidate contents of the instruction tree: <<RV32F, RV64F>>.
Catalogs ==
    { << ("FADD.S##RISCV" :> 3 @@ "FMUL.S##RISCV" :> 1),
         ("FCVT.L.S##RISCV" :> 1 @@ "FCVT.S.L##RISCV" :> 1) >>,
      << EmptyGroup,
         ("FCVT.L.S##RISCV" :> 0 @@ "FCVT.S.L##RISCV" :> 0) >>,
      << ("FADD.S##RISCV" :> 0 @@ "FMUL.S##RISCV" :> 2),
         EmptyGroup >> }

\* ------------------------------------------------------------- multisets
NoInstances == [id \in Ids |-> 0]
AddInstance(b, id) ==
    IF id \in DOMAIN b THEN [b EXCEPT ![id] = @ + 1] ELSE (id :> 1) @@ b
RECURSIVE SumOver(_, _)
SumOver(b, S) ==
    IF S = {} THEN 0
    ELSE LET x == CHOOSE y \in S : TRUE IN b[x] + SumOver(b, S \ {x})
Size(b) == SumOver(b, DOMAIN b)
Members(b) == {id \in DOMAIN b : b[id] > 0}

VARIABLES
    \* environment, fixed before the run
    opt_value, opt_present, AppRegisterWidth,
    RV32F_instructions, RV64F_instructions,
    \* locals of generate()
    count_opt, count_opt_valid, instruction_count, instruction_group,
    range_len, iter, the_instruction, record_id,
    \* control
    pc, error,
    \* calls made so far
    getOptionCalls, getGlobalStateCalls, drawn, submitted, outstanding,
    \* the in-progress test program owned by the backend
    program

env == <<opt_value, opt_present, AppRegisterWidth,
         RV32F_instructions, RV64F_instructions>>
resolved == <<count_opt, count_opt_valid, instruction_count, instruction_group>>
lookups == <<getOptionCalls, getGlobalStateCalls>>
vars == <<opt_value, opt_present, AppRegisterWidth,
          RV32F_instructions, RV64F_instructions,
          count_opt, count_opt_valid, instruction_count, instruction_group,
          range_len, iter, the_instruction, record_id, pc, error,
          getOptionCalls, getGlobalStateCalls, drawn, submitted, outstanding,
          program>>

\* ------------------------------------------------- pure parts of the code
\* lines 40-43
ResolveCountIgnoreValid(opt, valid) == opt
ResolveCount(opt, valid) == IF valid THEN opt ELSE IntV(DefaultCount)

\* line 64
SelectGroupSwapped(width, g32, g64) == IF width = 32 THEN g64 ELSE g32
SelectGroupOnly64(width, g32, g64) == IF width = 64 THEN g64 ELSE g32
SelectGroup(width, g32, g64) == IF width = 32 THEN g32 ELSE g64

\* line 66: range(n) raises TypeError unless n is an int, and is empty for
\* n <= 0
RangeRaises(v) == v.kind # "int"
RangeLenShort(n) == IF n > 1 THEN n - 1 ELSE 0
RangeLenAbs(n) == IF n > 0 THEN n ELSE -n
RangeLen(n) == IF n > 0 THEN n ELSE 0

\* pickWeighted: the entries a weighted draw can return
Sampleable(group) == {id \in DOMAIN group : group[id] > 0}

Init ==
    /\ \E o \in Options : opt_value = o[1] /\ opt_present = o[2]
    /\ AppRegisterWidth \in Widths
    /\ \E c \in Catalogs : RV32F_instructions = c[1] /\ RV64F_instructions = c[2]
    /\ count_opt = Unbound
    /\ count_opt_valid = FALSE
    /\ instruction_count = Unbound
    /\ instruction_group = EmptyGroup
    /\ range_len = 0
    /\ iter = 0
    /\ the_instruction = NoInstruction
    /\ record_id = 0
    /\ pc = "L39"
    /\ error = "none"
    /\ getOptionCalls = 0
    /\ getGlobalStateCalls = 0
    /\ drawn = NoInstances
    /\ submitted = NoInstances
    /\ outstanding = 0
    /\ program = NoInstances

\* lines 39-43: read the option and resolve the count
GetOption ==
    /\ pc = "L39"
    /\ count_opt' = opt_value
    /\ count_opt_valid' = opt_present
    /\ instruction_count' = ResolveCount(opt_value, opt_present)
    /\ getOptionCalls' = getOptionCalls + 1
    /\ pc' = "L64"
    /\ UNCHANGED <<env, instruction_group, range_len, iter, the_instruction,
                   record_id, error, getGlobalStateCalls, drawn, submitted,
                   outstanding, program>>

\* line 64: read the register width and select the group
GetGlobalState ==
    /\ pc = "L64"
    /\ instruction_group' =
           SelectGroup(AppRegisterWidth, RV32F_instructions, RV64F_instructions)
    /\ getGlobalStateCalls' = getGlobalStateCalls + 1
    /\ pc' = "L66"
    /\ UNCHANGED <<env, count_opt, count_opt_valid, instruction_count,
                   range_len, iter, the_instruction, record_id, error,
                   getOptionCalls, drawn, submitted, outstanding, program>>

\* line 66: range(instruction_count) is evaluated once
RangeEval ==
    /\ pc = "L66"
    /\ ~RangeRaises(instruction_count)
    /\ range_len' = RangeLen(instruction_count.n)
    /\ pc' = "for"
    /\ UNCHANGED <<env, resolved, lookups, iter, the_instruction, record_id,
                   error, drawn, submitted, outstanding, program>>

\* line 66: range() of a non-integer raises TypeError out of generate()
RangeTypeError ==
    /\ pc = "L66"
    /\ RangeRaises(instruction_count)
    /\ error' = "TypeError"
    /\ pc' = "failed"
    /\ UNCHANGED <<env, resolved, lookups, range_len, iter, the_instruction,
                   record_id, drawn, submitted, outstanding, program>>

\* line 66: the for statement takes the next element of the range
ForNextRequery ==
    /\ pc = "for"
    /\ iter < range_len
    /\ iter' = iter + 1
    /\ getGlobalStateCalls' = getGlobalStateCalls + 1
    /\ pc' = "L68"
    /\ UNCHANGED <<env, resolved, getOptionCalls, range_len, the_instruction,
                   record_id, error, drawn, submitted, outstanding, program>>
ForNext ==
    /\ pc = "for"
    /\ iter < range_len
    /\ iter' = iter + 1
    /\ pc' = "L68"
    /\ UNCHANGED <<env, resolved, lookups, range_len, the_instruction,
                   record_id, error, drawn, submitted, outstanding, program>>

\* line 66: the range is exhausted and generate() returns
ForExitEarly ==
    /\ pc = "for"
    /\ iter + 1 >= range_len
    /\ pc' = "done"
    /\ UNCHANGED <<env, resolved, lookups, range_len, iter, the_instruction,
                   record_id, error, drawn, submitted, outstanding, program>>
ForExit ==
    /\ pc = "for"
    /\ iter >= range_len
    /\ pc' = "done"
    /\ UNCHANGED <<env, resolved, lookups, range_len, iter, the_instruction,
                   record_id, error, drawn, submitted, outstanding, program>>

\* line 68: pickWeighted returns an entry of the group
PickReturn ==
    /\ pc = "L68"
    /\ \E id \in Sampleable(instruction_group) :
          /\ the_instruction' = id
          /\ drawn' = AddInstance(drawn, id)
    /\ pc' = "L71"
    /\ UNCHANGED <<env, resolved, lookups, range_len, iter, record_id, error,
                   submitted, outstanding, program>>

\* line 68: pickWeighted raises on a group it cannot sample; generate() has
\* no handler, so the exception leaves it
PickRaiseSwallowed ==
    /\ pc = "L68"
    /\ Sampleable(instruction_group) = {}
    /\ error' = "SelectionError"
    /\ pc' = "L71"
    /\ UNCHANGED <<env, resolved, lookups, range_len, iter, the_instruction,
                   record_id, drawn, submitted, outstanding, program>>
PickRaise ==
    /\ pc = "L68"
    /\ Sampleable(instruction_group) = {}
    /\ error' = "SelectionError"
    /\ pc' = "failed"
    /\ UNCHANGED <<env, resolved, lookups, range_len, iter, the_instruction,
                   record_id, drawn, submitted, outstanding, program>>

\* line 71: genInstruction(the_instruction) is called
GenCallAsync ==
    /\ pc = "L71"
    /\ submitted' = AddInstance(submitted, the_instruction)
    /\ outstanding' = outstanding + 1
    /\ pc' = "for"
    /\ UNCHANGED <<env, resolved, lookups, range_len, iter, the_instruction,
                   record_id, error, drawn, program>>
GenCall ==
    /\ pc = "L71"
    /\ submitted' = AddInstance(submitted, the_instruction)
    /\ outstanding' = outstanding + 1
    /\ pc' = "backend"
    /\ UNCHANGED <<env, resolved, lookups, range_len, iter, the_instruction,
                   record_id, error, drawn, program>>

\* line 71: the backend adds the instruction to the test program and
\* genInstruction returns its record id
GenReturn ==
    /\ pc = "backend"
    /\ program' = AddInstance(program, the_instruction)
    /\ record_id' \in RecordIds
    /\ outstanding' = outstanding - 1
    /\ pc' = "for"
    /\ UNCHANGED <<env, resolved, lookups, range_len, iter, the_instruction,
                   error, drawn, submitted>>

\* line 71: genInstruction raises; generate() has no handler, so the
\* exception leaves it
GenRaiseRollback ==
    /\ pc = "backend"
    /\ error' = "GenerationError"
    /\ outstanding' = outstanding - 1
    /\ program' = NoInstances
    /\ pc' = "failed"
    /\ UNCHANGED <<env, resolved, lookups, range_len, iter, the_instruction,
                   record_id, drawn, submitted>>
GenRaise ==
    /\ pc = "backend"
    /\ error' = "GenerationError"
    /\ outstanding' = outstanding - 1
    /\ pc' = "failed"
    /\ UNCHANGED <<env, resolved, lookups, range_len, iter, the_instruction,
                   record_id, drawn, submitted, program>>

Next ==
    \/ GetOption
    \/ GetGlobalState
    \/ RangeEval
    \/ RangeTypeError
    \/ ForNext
    \/ ForExit
    \/ PickReturn
    \/ PickRaise
    \/ GenCall
    \/ GenReturn
    \/ GenRaise

Spec == Init /\ [][Next]_vars

\* generate() runs synchronously on one thread: it always takes its next step
LiveSpec == Init /\ [][Next]_vars /\ WF_vars(Next)

\* ------------------------------------------------------------ properties
InLoop == pc \in {"for", "L68", "L71", "backend"}
Configured == pc \notin {"L39", "L64"}
PositiveInt(v) == v.kind = "int" /\ v.n > 0

\* C1: a completed run whose count option is present and is a positive
\* integer N has made exactly N pickWeighted draws and exactly N
\* genInstruction submissions, in N iterations, each of which added one
\* instruction to the test program.
C1_CountFidelity ==
    (pc = "done" /\ opt_present /\ PositiveInt(opt_value)) =>
        /\ Size(drawn) = opt_value.n
        /\ Size(submitted) = opt_value.n
        /\ Size(program) = opt_value.n
        /\ iter = opt_value.n
C1_Witness ==
    /\ pc = "done" /\ opt_present /\ PositiveInt(opt_value)
    /\ opt_value.n >= 2 /\ Size(submitted) = opt_value.n

\* C2: a completed run whose count option is reported absent has made
\* exactly 100 genInstruction submissions, whatever value came with the
\* absent flag.
C2_DefaultCount ==
    (pc = "done" /\ ~opt_present) => Size(submitted) = 100
C2_Witness ==
    /\ pc = "done" /\ ~opt_present /\ opt_value = IntV(MaxCount)
    /\ Size(submitted) = 100

\* C3: with AppRegisterWidth 32 every identifier drawn or submitted is an
\* entry of RV32F_instructions, and with AppRegisterWidth 64 every one is an
\* entry of RV64F_instructions, in every state of the run.
C3_WidthSelection ==
    /\ AppRegisterWidth = 32 =>
          Members(submitted) \cup Members(drawn) \subseteq DOMAIN RV32F_instructions
    /\ AppRegisterWidth = 64 =>
          Members(submitted) \cup Members(drawn) \subseteq DOMAIN RV64F_instructions
C3_Witness ==
    /\ AppRegisterWidth = 32
    /\ Cardinality(Members(submitted)) = 2
    /\ pc = "done"

\* C4 as stated: with a register width other than 32 and 64 no pickWeighted
\* draw and no genInstruction submission is ever made (the run aborts first).
C4_AbortsOnUnknownWidth ==
    AppRegisterWidth \notin {32, 64} =>
        /\ Size(drawn) = 0
        /\ Size(submitted) = 0

\* C4 amended: a register width other than 32 and 64 is not rejected; the
\* run selects RV64F_instructions, every identifier it draws or submits is
\* an entry of that group, no error is raised by the width, and a completed
\* run has made as many submissions as the count asks for.
C4_UnknownWidthUses64 ==
    AppRegisterWidth \notin {32, 64} =>
        /\ Configured => instruction_group = RV64F_instructions
        /\ Members(submitted) \cup Members(drawn) \subseteq DOMAIN RV64F_instructions
        /\ pc = "L66" => error = "none"
        /\ pc = "done" => Size(submitted) = range_len
C4_Witness ==
    /\ AppRegisterWidth = 16
    /\ pc = "done"
    /\ Size(submitted) >= 2

\* C5 as stated: a count option that is present but is not a positive
\* integer never ends in success and makes no submission.
C5_RejectsBadCount ==
    (opt_present /\ ~PositiveInt(opt_value)) =>
        /\ pc # "done"
        /\ Size(submitted) = 0

\* C5 amended: a count option that is present but is not a positive integer
\* leads to no pickWeighted draw and no genInstruction submission; when it is
\* 0 or a negative integer the range is empty, nothing fails, and the run can
\* only end in success; when it is not an integer the only failure is the
\* TypeError raised by range(), and the run never enters the loop or succeeds.
C5_BadCountNoSubmission ==
    (opt_present /\ ~PositiveInt(opt_value)) =>
        /\ Size(drawn) = 0
        /\ Size(submitted) = 0
        /\ iter = 0
        /\ opt_value.kind = "int" =>
              /\ pc # "failed" /\ error = "none"
              /\ pc \in {"L39", "L64", "L66", "for", "done"}
        /\ opt_value.kind # "int" =>
              /\ pc \in {"L39", "L64", "L66", "failed"}
              /\ error \in {"none", "TypeError"}
              /\ pc = "failed" <=> error = "TypeError"
C5_Witness ==
    /\ opt_present /\ opt_value = IntV(-1)
    /\ pc = "done"
    /\ Size(submitted) = 0

\* C6: when genInstruction has failed at iteration k the run is over and
\* failed: nothing further can happen, exactly k draws and k submissions were
\* made (the failed one is not repeated), no backend call is outstanding, and
\* the test program holds exactly the k-1 instructions generated before.
C6_GenerationError ==
    /\ error = "GenerationError" =>
          /\ pc = "failed"
          /\ outstanding = 0
          /\ iter >= 1
          /\ Size(drawn) = iter
          /\ Size(submitted) = iter
          /\ Size(program) = iter - 1
          /\ AddInstance(program, the_instruction) = submitted
    /\ pc = "failed" => ~ENABLED Next
C6_Witness ==
    /\ error = "GenerationError"
    /\ pc = "failed"
    /\ iter = 2
    /\ Size(program) = 1

\* C7: when the active group is empty or has total weight zero, the first
\* iteration's draw raises the selection error, the run is failed at that
\* iteration, nothing is retried, and no genInstruction submission is made.
C7_FailFastOnEmptyGroup ==
    (Configured /\ Sampleable(instruction_group) = {}) =>
        /\ Size(submitted) = 0
        /\ Size(drawn) = 0
        /\ iter <= 1
        /\ iter = 1 => pc \in {"L68", "failed"}
        /\ pc = "failed" => (error = "SelectionError" <=> iter = 1)
        /\ error = "SelectionError" => pc = "failed" /\ ~ENABLED Next
C7_Witness ==
    /\ error = "SelectionError"
    /\ pc = "failed"
    /\ iter = 1
    /\ instruction_group = EmptyGroup
    /\ Size(submitted) = 0

\* C8: draws and submissions strictly alternate starting with a draw, the
\* identifier submitted is the one just drawn, and a draw or submission is
\* made only while no backend call is outstanding (at most one ever is).
C8_StrictSequencing ==
    /\ outstanding \in {0, 1}
    /\ outstanding = 1 <=> pc = "backend"
    /\ pc = "L71" => drawn = AddInstance(submitted, the_instruction)
    /\ pc # "L71" => drawn = submitted
    /\ pc \in {"L68", "L71", "backend"} => Size(drawn) + 1 >= iter
    /\ pc = "L68" => Size(program) = iter - 1 /\ Size(submitted) = iter - 1
    /\ pc = "backend" =>
          /\ Size(submitted) = iter
          /\ AddInstance(program, the_instruction) = submitted
    /\ pc \in {"for", "done"} => program = submitted /\ Size(program) = iter
C8_Witness ==
    /\ pc = "backend"
    /\ outstanding = 1
    /\ iter = 2
    /\ Cardinality(Members(submitted)) = 2

\* C9: getOption and getGlobalState are each called once, both before the
\* first draw, and once the count and the group are resolved no step changes
\* them (or the environment they came from); the loop advances only the
\* iteration counter and the per-iteration instruction and record id.
C9_CallsOnce ==
    /\ getOptionCalls = (IF pc = "L39" THEN 0 ELSE 1)
    /\ getGlobalStateCalls = (IF Configured THEN 1 ELSE 0)
    /\ (Size(drawn) > 0 \/ InLoop) => getOptionCalls = 1 /\ getGlobalStateCalls = 1
C9_Frame ==
    /\ UNCHANGED env
    /\ Configured => UNCHANGED <<resolved, lookups>>
    /\ InLoop => UNCHANGED range_len
C9_ResolvedOnce == [](C9_CallsOnce) /\ [][C9_Frame]_vars
C9_Witness ==
    /\ pc = "done"
    /\ iter = 2
    /\ getOptionCalls = 1
    /\ getGlobalStateCalls = 1
    /\ instruction_group = RV32F_instructions

\* C10: with an absent or positive-integer count the run eventually ends in
\* success unless a pickWeighted or genInstruction call fails, whatever
\* record ids are returned; success is reached only with every iteration of
\* the range completed, and a run that can go no further has either
\* succeeded or failed with an error raised.
ValidCount == ~opt_present \/ PositiveInt(opt_value)
C10_Outcomes ==
    /\ pc = "done" =>
          /\ error = "none"
          /\ instruction_count.kind = "int"
          /\ iter = RangeLen(instruction_count.n)
          /\ Size(program) = iter
    /\ pc = "failed" <=> error # "none"
    /\ ~ENABLED Next => pc \in {"done", "failed"}
C10_RunCompletion ==
    /\ [](C10_Outcomes)
    /\ ValidCount => <>(pc = "done" \/ error \in {"SelectionError", "GenerationError"})
C10_Witness ==
    /\ pc = "done"
    /\ ~opt_present
    /\ iter = 100
    /\ record_id = 2
====
